---- MODULE Spec2Model ----
(***************************************************************************)
(* Model of hw-3.py: the Field/Phone/Birthday value classes, Record,       *)
(* AddressBook, the command handlers and the module-level command loop.    *)
(*                                                                         *)
(* Python str values are TLA+ strings; a Python object is a record whose   *)
(* fields are the object's attributes (so a Birthday object has the one    *)
(* attribute "value"); book.data is the sequence of (key, value) entries   *)
(* of the dict in insertion order.  Record objects are only ever reachable *)
(* through the one dict entry that holds them, so in-place mutation of a   *)
(* record is modelled by replacing the entry's value.                      *)
(***************************************************************************)
EXTENDS Integers, Sequences, FiniteSets, TLC

\* Bound on the number of phones a record is grown to by add_phone.
MaxPhones == 3

\* Arguments passed to the methods (PhoneInputs, DateInputs) and tokens typed
\* at the prompt (LinePhones, DateInputs).
NameInputs == {"Ann", "Bob"}
PhoneInputs == {"5555555555", "1111111111", "12345", "²²²²²²²²²²"}
LinePhones == {"5555555555", "12345"}
DateInputs == {"02.01.2000", "29.02.2021"}

\* Values datetime.date.today() returns.
Todays ==
    { [year |-> 2024, month |-> 12, day |-> 28],
      [year |-> 2025, month |-> 1, day |-> 1],
      [year |-> 2024, month |-> 3, day |-> 1] }

None == [NoneType |-> TRUE]

-----------------------------------------------------------------------------
(* str helpers *)

CharAt(s, i) == SubSeq(s, i, i)

AsciiDigits == "0123456789"

DecimalDigitChars == {CharAt(AsciiDigits, i) : i \in 1..10}

\* Characters outside 0-9 for which str.isdigit() is true (superscript two,
\* U+00B2, has Numeric_Type=Digit).
OtherDigitChars == {"²"}

isdigit(s) ==
    /\ Len(s) > 0
    /\ \A i \in 1..Len(s) : CharAt(s, i) \in DecimalDigitChars \cup OtherDigitChars

RECURSIVE join(_, _)
join(sep, strs) ==
    IF strs = <<>> THEN ""
    ELSE IF Len(strs) = 1 THEN strs[1]
    ELSE strs[1] \o sep \o join(sep, Tail(strs))

DigitVal(c) == (CHOOSE i \in 1..10 : CharAt(AsciiDigits, i) = c) - 1

RECURSIVE ToInt(_)
ToInt(s) ==
    IF Len(s) = 0 THEN 0
    ELSE ToInt(SubSeq(s, 1, Len(s) - 1)) * 10 + DigitVal(CharAt(s, Len(s)))

RECURSIVE Pad(_, _)
Pad(n, w) ==
    IF w = 0 THEN "" ELSE Pad(n \div 10, w - 1) \o CharAt(AsciiDigits, (n % 10) + 1)

-----------------------------------------------------------------------------
(* datetime helpers *)

IsLeap(y) == y % 4 = 0 /\ (y % 100 # 0 \/ y % 400 = 0)

DaysInMonth(y, m) ==
    IF m = 2 THEN (IF IsLeap(y) THEN 29 ELSE 28)
    ELSE IF m \in {4, 6, 9, 11} THEN 30 ELSE 31

ValidDate(y, m, d) == y \in 1..9999 /\ m \in 1..12 /\ d \in 1..DaysInMonth(y, m)

Date(y, m, d) == [year |-> y, month |-> m, day |-> d]

NextDay(dt) ==
    IF dt.day < DaysInMonth(dt.year, dt.month) THEN [dt EXCEPT !.day = @ + 1]
    ELSE IF dt.month < 12 THEN Date(dt.year, dt.month + 1, 1)
    ELSE Date(dt.year + 1, 1, 1)

RECURSIVE AddDays(_, _)
AddDays(dt, n) == IF n = 0 THEN dt ELSE AddDays(NextDay(dt), n - 1)

RECURSIVE DaysBeforeMonth(_, _)
DaysBeforeMonth(y, m) ==
    IF m = 1 THEN 0 ELSE DaysBeforeMonth(y, m - 1) + DaysInMonth(y, m - 1)

DaysBeforeYear(y) ==
    (y - 1) * 365 + ((y - 1) \div 4) - ((y - 1) \div 100) + ((y - 1) \div 400)

toordinal(dt) == DaysBeforeYear(dt.year) + DaysBeforeMonth(dt.year, dt.month) + dt.day

DateLT(a, b) ==
    \/ a.year < b.year
    \/ a.year = b.year /\ a.month < b.month
    \/ a.year = b.year /\ a.month = b.month /\ a.day < b.day

\* Python's ordering of 2-tuples of ints, first component first.
TupleLE(a, b) == a[1] < b[1] \/ (a[1] = b[1] /\ a[2] <= b[2])

\* datetime.datetime.strptime(date_string, '%d.%m.%Y') on a token without
\* whitespace: one or two digits, '.', one or two digits, '.', four digits,
\* naming a date of the calendar; None stands for the ValueError.
strptime(s) ==
    LET dots == {i \in 1..Len(s) : CharAt(s, i) = "."}
    IN  IF Cardinality(dots) # 2 THEN None
        ELSE LET i  == CHOOSE k \in dots : \A l \in dots : k <= l
                 j  == CHOOSE k \in dots : \A l \in dots : k >= l
                 ds == SubSeq(s, 1, i - 1)
                 ms == SubSeq(s, i + 1, j - 1)
                 ys == SubSeq(s, j + 1, Len(s))
                 ascii(t) == \A k \in 1..Len(t) : CharAt(t, k) \in DecimalDigitChars
             IN  IF /\ Len(ds) \in 1..2 /\ Len(ms) \in 1..2 /\ Len(ys) = 4
                    /\ ascii(ds) /\ ascii(ms) /\ ascii(ys)
                    /\ ValidDate(ToInt(ys), ToInt(ms), ToInt(ds))
                 THEN Date(ToInt(ys), ToInt(ms), ToInt(ds))
                 ELSE None

\* str() of a datetime whose time of day is midnight.
datetime_str(dt) ==
    Pad(dt.year, 4) \o "-" \o Pad(dt.month, 2) \o "-" \o Pad(dt.day, 2) \o " 00:00:00"

-----------------------------------------------------------------------------
(* Field, Name, Phone, Birthday *)

Name(value) == [value |-> value]

\* Phone.validate
validate(value) == Len(value) = 10 /\ isdigit(value)

\* Phone.__init__: the object, or the exception it raises.
Phone(value) ==
    IF validate(value) THEN [exc |-> "", obj |-> [value |-> value]]
    ELSE [exc |-> "ValueError: Invalid phone number", obj |-> None]

\* Birthday.validate
Birthday_validate(date_string) == strptime(date_string)

\* Birthday.__init__
Birthday(date_string) ==
    LET value == Birthday_validate(date_string)
    IN  IF value = None
        THEN [exc |-> "ValueError: Invalid birthday format. Use DD.MM.YYYY", obj |-> None]
        ELSE [exc |-> "", obj |-> [value |-> value]]

\* Field.__str__ of a Birthday object
Field_str(field) == datetime_str(field.value)

-----------------------------------------------------------------------------
(* Record *)

Record(name) == [name |-> Name(name), phones |-> <<>>, birthday |-> None]

\* Each method gives the record afterwards (rec), the value returned (ret)
\* and the exception raised (exc, "" when none).
Done(rec, ret) == [rec |-> rec, ret |-> ret, exc |-> ""]

Raised(rec, exc) == [rec |-> rec, ret |-> None, exc |-> exc]

add_phone(self, phone_number) ==
    LET p == Phone(phone_number)
    IN  IF p.exc # "" THEN Raised(self, p.exc)
        ELSE Done([self EXCEPT !.phones = Append(@, p.obj)], None)

RECURSIVE Filter(_, _)
Filter(phones, phone_number) ==
    IF phones = <<>> THEN <<>>
    ELSE IF Head(phones).value # phone_number
         THEN <<Head(phones)>> \o Filter(Tail(phones), phone_number)
         ELSE Filter(Tail(phones), phone_number)

\* remove_phone dropping only the first match
remove_phone_first(self, phone_number) ==
    LET hits == {i \in 1..Len(self.phones) : self.phones[i].value = phone_number}
    IN  IF hits = {} THEN Done(self, None)
        ELSE LET first == CHOOSE i \in hits : \A k \in hits : i <= k
             IN  Done([self EXCEPT !.phones = SubSeq(@, 1, first - 1)
                                              \o SubSeq(@, first + 1, Len(@))], None)

remove_phone(self, phone_number) ==
    Done([self EXCEPT !.phones = Filter(@, phone_number)], None)

\* edit_phone without the break: every match is rewritten
edit_phone_all(self, old_number, new_number) ==
    Done([self EXCEPT !.phones = [i \in 1..Len(@) |->
              IF @[i].value = old_number THEN [@[i] EXCEPT !.value = new_number] ELSE @[i]]],
         None)

edit_phone(self, old_number, new_number) ==
    LET hits == {i \in 1..Len(self.phones) : self.phones[i].value = old_number}
    IN  IF hits = {} THEN Done(self, None)
        ELSE LET first == CHOOSE i \in hits : \A k \in hits : i <= k
             IN  Done([self EXCEPT !.phones[first].value = new_number], None)

find_phone(self, phone_number) ==
    LET hits == {i \in 1..Len(self.phones) : self.phones[i].value = phone_number}
    IN  IF hits = {} THEN Done(self, None)
        ELSE Done(self, self.phones[CHOOSE i \in hits : \A k \in hits : i <= k])

add_birthday(self, birthday) == Done([self EXCEPT !.birthday = birthday], [bool |-> TRUE])

\* self.birthday.month and .day are attribute reads on whatever object
\* add_birthday stored.
days_to_birthday(self, today) ==
    IF self.birthday = None THEN Done(self, None)
    ELSE IF ~ ({"month", "day"} \subseteq DOMAIN self.birthday)
    THEN Raised(self, "AttributeError: 'Birthday' object has no attribute 'month'")
    ELSE IF ~ ValidDate(today.year, self.birthday.month, self.birthday.day)
    THEN Raised(self, "ValueError: day is out of range for month")
    ELSE LET birthday_date == Date(today.year, self.birthday.month, self.birthday.day)
         IN  IF DateLT(birthday_date, today)
             THEN IF ~ ValidDate(today.year + 1, birthday_date.month, birthday_date.day)
                  THEN Raised(self, "ValueError: day is out of range for month")
                  ELSE Done(self, [int |-> toordinal([birthday_date EXCEPT !.year = today.year + 1])
                                              - toordinal(today)])
             ELSE Done(self, [int |-> toordinal(birthday_date) - toordinal(today)])

PhoneValues(phones) == [i \in 1..Len(phones) |-> phones[i].value]

\* Record.__str__: the three adjacent f-strings form one literal, which is
\* the first operand of the conditional expression.
Record_str(self) ==
    IF self.birthday # None
    THEN "Contact name: " \o self.name.value \o ", "
         \o "phones: " \o join("; ", PhoneValues(self.phones)) \o ", "
         \o "birthday: " \o Field_str(self.birthday)
    ELSE ""

-----------------------------------------------------------------------------
(* AddressBook (UserDict): data is the dict, in insertion order *)

Keys(data) == {data[i].key : i \in 1..Len(data)}

IndexOf(data, key) == CHOOSE i \in 1..Len(data) : data[i].key = key

\* dict.get(key)
Get(data, key) == IF key \in Keys(data) THEN data[IndexOf(data, key)].value ELSE None

\* data[key] = value: an existing key keeps its position.
SetItem(data, key, value) ==
    IF key \in Keys(data) THEN [data EXCEPT ![IndexOf(data, key)].value = value]
    ELSE Append(data, [key |-> key, value |-> value])

\* del data[key], for a key of data
DelItem(data, key) ==
    LET i == IndexOf(data, key)
    IN  SubSeq(data, 1, i - 1) \o SubSeq(data, i + 1, Len(data))

\* add_record keyed by the record's first phone
add_record_by_phone(data, record) ==
    SetItem(data, IF record.phones # <<>> THEN record.phones[1].value ELSE "", record)

\* add_record that keeps an entry already stored under the name
add_record_keep(data, record) ==
    IF record.name.value \in Keys(data) THEN data
    ELSE SetItem(data, record.name.value, record)

add_record(data, record) == SetItem(data, record.name.value, record)

find(data, name) == Get(data, name)

\* delete: the dict afterwards and the exception raised
delete(data, name) ==
    IF name \in Keys(data) THEN [data |-> DelItem(data, name), exc |-> ""]
    ELSE [data |-> data, exc |-> "KeyError"]

change_phone(data, name, new_phone) ==
    LET record == Get(data, name)
    IN  IF record # None /\ record.phones # <<>>
        THEN LET old_phone == record.phones[1].value
             IN  SetItem(data, name, edit_phone(record, old_phone, new_phone).rec)
        ELSE data

\* show_phone: [str |-> ...] or None
show_phone(data, name) ==
    LET record == Get(data, name)
    IN  IF record # None THEN [str |-> join("; ", PhoneValues(record.phones))]
        ELSE None

show_all(data) == join("\n", [i \in 1..Len(data) |-> Record_str(data[i].value)])

-----------------------------------------------------------------------------
(* Command handlers.  args is the token list of the line (args[1] is the   *)
(* command word, Python's args[0]).  A handler gives the book afterwards,  *)
(* the string it returns, what it prints itself and the exception raised.  *)

Ret(data, ret) == [data |-> data, ret |-> ret, printed |-> "", exc |-> "", picked |-> <<>>]

Raise(data, exc) == [data |-> data, ret |-> "", printed |-> "", exc |-> exc, picked |-> <<>>]

add_handler(data, args) ==
    IF Len(args) # 3 THEN Ret(data, "Invalid command usage: add <name> <phone>")
    ELSE LET name   == args[2]
             phone  == args[3]
             record == Record(name)
             r      == add_phone(record, phone)
         IN  IF r.exc # "" THEN Raise(data, r.exc)
             ELSE Ret(add_record(data, r.rec), "Contact " \o name \o " added")

change_handler(data, args) ==
    IF Len(args) # 3 THEN Ret(data, "Invalid command usage: change <name> <new_phone>")
    ELSE LET name      == args[2]
             new_phone == args[3]
         IN  Ret(change_phone(data, name, new_phone),
                 "Phone number for " \o name \o " changed")

phone_handler(data, args) ==
    IF Len(args) # 2 THEN Ret(data, "Invalid command usage: phone <name>")
    ELSE LET name == args[2]
             shown == show_phone(data, name)
         IN  IF shown # None /\ shown.str # "" THEN Ret(data, shown.str)
             ELSE Ret(data, "Contact " \o name \o " not found")

all_handler(data, args) == Ret(data, show_all(data))

add_birthday_handler(data, args) ==
    IF Len(args) # 3 THEN Ret(data, "Invalid command usage: add_birthday <name> <birthday>")
    ELSE LET name     == args[2]
             birthday == args[3]
             contact  == find(data, name)
         IN  IF contact # None
             THEN LET birthday_obj == Birthday(birthday)
                  IN  IF birthday_obj.exc # "" THEN Raise(data, birthday_obj.exc)
                      ELSE Ret(SetItem(data, name, add_birthday(contact, birthday_obj.obj).rec),
                               "Birthday added for " \o name)
             ELSE Ret(data, "Contact " \o name \o " not found")

show_birthday_handler(data, args) ==
    IF Len(args) # 2 THEN Ret(data, "Invalid command usage: show_birthday <name>")
    ELSE LET name    == args[2]
             contact == find(data, name)
         IN  IF contact # None /\ contact.birthday # None
             THEN Ret(data, "Birthday for " \o name \o ": " \o Field_str(contact.birthday))
             ELSE Ret(data, "Contact " \o name \o " does not have a birthday or not found")

\* The window test comparing (month, day) pairs
InWindow_month_first(contact, today, next_week) ==
    LET birthday_date == contact.birthday.value
    IN  /\ TupleLE(<<today.month, today.day>>, <<birthday_date.month, birthday_date.day>>)
        /\ TupleLE(<<birthday_date.month, birthday_date.day>>,
                   <<next_week.month, next_week.day>>)

\* The test of line 171 on one contact with a birthday.
InWindow(contact, today, next_week) ==
    LET birthday_date == contact.birthday.value
    IN  /\ TupleLE(<<today.day, today.month>>, <<birthday_date.day, birthday_date.month>>)
        /\ TupleLE(<<birthday_date.day, birthday_date.month>>,
                   <<next_week.day, next_week.month>>)

RECURSIVE Select(_, _, _)
Select(data, today, next_week) ==
    IF data = <<>> THEN <<>>
    ELSE LET contact == Head(data).value
         IN  (IF contact.birthday # None /\ InWindow(contact, today, next_week)
              THEN <<contact>> ELSE <<>>)
             \o Select(Tail(data), today, next_week)

RECURSIVE PrintEach(_)
PrintEach(birthdays) ==
    IF birthdays = <<>> THEN ""
    ELSE "Upcoming birthdays within the next week:\n " \o Record_str(Head(birthdays)) \o "\n"
         \o PrintEach(Tail(birthdays))

\* picked is the handler's local list birthdays.
birthdays_handler(data, args, today) ==
    LET next_week == AddDays(today, 7)
        birthdays == Select(data, today, next_week)
    IN  [data |-> data, ret |-> "", printed |-> PrintEach(birthdays), exc |-> "",
         picked |-> birthdays]

hello_handler(data, args) == Ret(data, "Hello, how can I assist you today?")

close_handler(data, args) == Raise(data, "SystemExit")

HandlerNames ==
    {"add", "change", "phone", "all", "add-birthday", "show-birthday", "birthdays",
     "hello", "close", "exit"}

\* handlers.get(command[0]) applied to the command
Dispatch(data, command, today) ==
    CASE command[1] = "add"           -> add_handler(data, command)
      [] command[1] = "change"        -> change_handler(data, command)
      [] command[1] = "phone"         -> phone_handler(data, command)
      [] command[1] = "all"           -> all_handler(data, command)
      [] command[1] = "add-birthday"  -> add_birthday_handler(data, command)
      [] command[1] = "show-birthday" -> show_birthday_handler(data, command)
      [] command[1] = "birthdays"     -> birthdays_handler(data, command, today)
      [] command[1] = "hello"         -> hello_handler(data, command)
      [] command[1] \in {"close", "exit"} -> close_handler(data, command)

\* One pass of the body of `while True`.
LoopBody(data, command, today) ==
    IF Len(command) = 0 THEN Raise(data, "IndexError: list index out of range")
    ELSE IF command[1] \in HandlerNames THEN Dispatch(data, command, today)
    ELSE Ret(data, "Unknown command")

-----------------------------------------------------------------------------
(* State *)

VARIABLES
    book,     \* book.data of the module-level AddressBook
    status,   \* the process: "running", "crashed" (uncaught exception), "exited"
    out,      \* what the last pass of the loop wrote to standard output
    exc,      \* the exception the last operation raised, "" when none
    result,   \* the value the last method call returned
    last      \* the last operation: its name and arguments, today's date, and
              \* how many phones the record it names had before (-1: no record)

vars == <<book, status, out, exc, result, last>>

PhonesBefore(data, name) ==
    IF name \in Keys(data) THEN Len(Get(data, name).phones) ELSE -1

Op(op, args, today, n) == [op |-> op, args |-> args, today |-> today, n |-> n]

Init ==
    /\ book = <<>>
    /\ status = "running"
    /\ out = ""
    /\ exc = ""
    /\ result = None
    /\ last = Op("", <<>>, None, -1)

-----------------------------------------------------------------------------
(* The command loop: one action per kind of input line *)

Iteration(command, today) ==
    /\ status = "running"
    /\ LET e == LoopBody(book, command, today)
       IN  /\ book' = e.data
           /\ exc' = e.exc
           /\ out' = IF e.exc = "" THEN e.printed \o e.ret \o "\n" ELSE e.printed
           /\ status' = IF e.exc = "" THEN "running"
                        ELSE IF e.exc = "SystemExit" THEN "exited" ELSE "crashed"
           /\ result' = IF e.exc = "" /\ command[1] = "birthdays"
                        THEN [picked |-> e.picked] ELSE None
    /\ last' = Op(IF Len(command) = 0 THEN "" ELSE command[1], command, today,
                  IF Len(command) >= 2 THEN PhonesBefore(book, command[2]) ELSE -1)

CmdAdd ==
    \E name \in NameInputs, phone \in LinePhones :
        Iteration(<<"add", name, phone>>, None)

CmdChange ==
    \E name \in NameInputs, new_phone \in LinePhones :
        Iteration(<<"change", name, new_phone>>, None)

CmdPhone == \E name \in NameInputs : Iteration(<<"phone", name>>, None)

CmdAll == Iteration(<<"all">>, None)

CmdAddBirthday ==
    \E name \in NameInputs, birthday \in DateInputs :
        Iteration(<<"add-birthday", name, birthday>>, None)

CmdShowBirthday == \E name \in NameInputs : Iteration(<<"show-birthday", name>>, None)

CmdBirthdays == \E today \in Todays : Iteration(<<"birthdays">>, today)

CmdHello == Iteration(<<"hello">>, None)

CmdClose == \E word \in {"close", "exit"} : Iteration(<<word>>, None)

\* A command word with the wrong number of tokens.
CmdUsage ==
    \E word \in {"add", "change", "phone", "add-birthday", "show-birthday"} :
        Iteration(<<word>>, None)

CmdUnknown == Iteration(<<"remove">>, None)

\* An empty line: input().split() is [] and command[0] raises.
CmdEmpty == Iteration(<<>>, None)

-----------------------------------------------------------------------------
(* Direct calls of the AddressBook and Record methods *)

Call(op, args, today, n, data, res, e) ==
    /\ status = "running"
    /\ book' = data
    /\ result' = res
    /\ exc' = e
    /\ last' = Op(op, args, today, n)
    /\ UNCHANGED <<status, out>>

\* A method of the record book.find(name), r being what the method gives.
CallMethod(op, name, args, today, r) ==
    Call(op, <<op, name>> \o args, today, PhonesBefore(book, name),
         SetItem(book, name, r.rec), r.ret, r.exc)

AddRecordOf(names) ==
    \E name \in names :
        Call("add_record", <<"add_record", name>>, None, PhonesBefore(book, name),
             add_record(book, Record(name)), None, "")

DeleteOf(names) ==
    \E name \in names :
        LET d == delete(book, name)
        IN  Call("delete", <<"delete", name>>, None, PhonesBefore(book, name),
                 d.data, None, d.exc)

ChangePhoneOf(names, numbers) ==
    \E name \in names, new_phone \in numbers :
        Call("change_phone", <<"change_phone", name, new_phone>>, None,
             PhonesBefore(book, name), change_phone(book, name, new_phone), None, "")

AddPhoneOf(numbers) ==
    \E name \in Keys(book), phone_number \in numbers :
        /\ Len(Get(book, name).phones) < MaxPhones
        /\ CallMethod("add_phone", name, <<phone_number>>, None,
                      add_phone(Get(book, name), phone_number))

RemovePhoneOf(numbers) ==
    \E name \in Keys(book), phone_number \in numbers :
        CallMethod("remove_phone", name, <<phone_number>>, None,
                   remove_phone(Get(book, name), phone_number))

EditPhoneOf(olds, news) ==
    \E name \in Keys(book), old_number \in olds, new_number \in news :
        CallMethod("edit_phone", name, <<old_number, new_number>>, None,
                   edit_phone(Get(book, name), old_number, new_number))

FindPhoneOf(numbers) ==
    \E name \in Keys(book), phone_number \in numbers :
        CallMethod("find_phone", name, <<phone_number>>, None,
                   find_phone(Get(book, name), phone_number))

\* record.add_birthday(Birthday(date_string))
AddBirthdayOf(dates) ==
    \E name \in Keys(book), date_string \in dates :
        LET b == Birthday(date_string)
        IN  IF b.exc # ""
            THEN Call("add_birthday", <<"add_birthday", name, date_string>>, None,
                      PhonesBefore(book, name), book, None, b.exc)
            ELSE CallMethod("add_birthday", name, <<date_string>>, None,
                            add_birthday(Get(book, name), b.obj))

DaysToBirthdayOf(todays) ==
    \E name \in Keys(book), today \in todays :
        CallMethod("days_to_birthday", name, <<>>, today,
                   days_to_birthday(Get(book, name), today))

-----------------------------------------------------------------------------
(* Spec: the program as run, with the AddressBook operations on the book *)

CallAddRecord == AddRecordOf(NameInputs)

CallDelete == DeleteOf(NameInputs)

CallChangePhone == ChangePhoneOf(NameInputs, LinePhones)

Next ==
    \/ CmdAdd
    \/ CmdChange
    \/ CmdPhone
    \/ CmdAll
    \/ CmdAddBirthday
    \/ CmdShowBirthday
    \/ CmdBirthdays
    \/ CmdHello
    \/ CmdClose
    \/ CmdUsage
    \/ CmdUnknown
    \/ CmdEmpty
    \/ CallAddRecord
    \/ CallDelete
    \/ CallChangePhone

Spec == Init /\ [][Next]_vars

-----------------------------------------------------------------------------
(* SpecRecord: the methods of one contact's Record *)

RecordName == {"Ann"}

ValidPhones == {"5555555555", "1111111111"}

RecNew == AddRecordOf(RecordName)

RecAddPhone == AddPhoneOf(PhoneInputs)

RecRemovePhone == RemovePhoneOf(PhoneInputs)

RecEditPhone == EditPhoneOf(ValidPhones, PhoneInputs)

RecFindPhone == FindPhoneOf(PhoneInputs)

RecAddBirthday == AddBirthdayOf(DateInputs)

RecDaysToBirthday == DaysToBirthdayOf(Todays)

NextRecord ==
    \/ RecNew
    \/ RecAddPhone
    \/ RecRemovePhone
    \/ RecEditPhone
    \/ RecFindPhone
    \/ RecAddBirthday
    \/ RecDaysToBirthday

SpecRecord == Init /\ [][NextRecord]_vars

-----------------------------------------------------------------------------
(* SpecPhones: change_phone on a book whose records hold several phones *)

OneDate == {"02.01.2000"}

BookAddRecord == AddRecordOf(NameInputs)

BookAddPhone == AddPhoneOf(ValidPhones)

BookChangePhone == ChangePhoneOf(NameInputs, PhoneInputs)

BookAddBirthday == AddBirthdayOf(OneDate)

NextPhones ==
    \/ BookAddRecord
    \/ BookAddPhone
    \/ BookChangePhone
    \/ BookAddBirthday

SpecPhones == Init /\ [][NextPhones]_vars

-----------------------------------------------------------------------------
(* Properties *)

IsSubstring(a, s) ==
    \E i \in 0..(Len(s) - Len(a)) : SubSeq(s, i + 1, i + Len(a)) = a

RECURSIVE SplitLines(_)
SplitLines(s) ==
    LET breaks == {i \in 1..Len(s) : CharAt(s, i) = "\n"}
    IN  IF breaks = {} THEN (IF s = "" THEN <<>> ELSE <<s>>)
        ELSE LET b == CHOOSE i \in breaks : \A k \in breaks : i <= k
             IN  <<SubSeq(s, 1, b - 1)>> \o SplitLines(SubSeq(s, b + 1, Len(s)))

TenDecimalDigits(s) ==
    Len(s) = 10 /\ \A i \in 1..Len(s) : CharAt(s, i) \in DecimalDigitChars

\* C1: every entry of the address book is stored under the key that is the
\* name of the record it holds.
C1_KeyIsRecordName ==
    \A i \in 1..Len(book) : book[i].key = book[i].value.name.value

C1_Witness ==
    /\ Len(book) = 2
    /\ last.op = "add_record"
    /\ last.n >= 0
    /\ \E i \in 1..2 : book[i].value.phones # <<>>

\* C2: every phone held in any record is a string of exactly 10 decimal
\* digits.
C2_PhonesAreTenDigits ==
    \A i \in 1..Len(book) :
        \A j \in 1..Len(book[i].value.phones) :
            TenDecimalDigits(book[i].value.phones[j].value)

\* C3: a command whose value construction fails (add with an invalid phone,
\* add-birthday for an existing contact with an invalid date) is answered
\* with a message, leaves the book as it was and leaves the loop running.
C3_LoopSurvivesFailedConstruction ==
    [][ ( /\ Len(last'.args) = 3
          /\ \/ last'.op = "add" /\ ~ TenDecimalDigits(last'.args[3])
             \/ /\ last'.op = "add-birthday"
                /\ last'.args[2] \in Keys(book)
                /\ strptime(last'.args[3]) = None )
        => (status' = "running" /\ out' # "" /\ book' = book) ]_vars

\* The days from today to the next date with the given month and day.
DaysUntil(today, month, day) ==
    CHOOSE k \in 0..366 :
        /\ AddDays(today, k).month = month /\ AddDays(today, k).day = day
        /\ \A l \in 0..(k - 1) :
               ~ (AddDays(today, l).month = month /\ AddDays(today, l).day = day)

\* C4: days_to_birthday returns none for a record without a birthday and
\* otherwise the non-negative number of days from today to the next
\* occurrence of the birthday's month and day (0 on the day itself).
C4_DaysToBirthday ==
    last.op = "days_to_birthday" =>
        LET rec == Get(book, last.args[2])
        IN  IF rec.birthday = None THEN exc = "" /\ result = None
            ELSE /\ exc = ""
                 /\ "int" \in DOMAIN result
                 /\ result.int >= 0
                 /\ result.int = DaysUntil(last.today, rec.birthday.value.month,
                                           rec.birthday.value.day)

\* C5: after the 'all' command the output has, for every record of the book
\* in turn, a line containing the record's name and its phones joined by
\* '; ', whether or not the record has a birthday.
C5_ListingShowsEveryRecord ==
    last.op = "all" =>
        LET lines == SplitLines(out)
        IN  \A i \in 1..Len(book) :
                /\ i <= Len(lines)
                /\ IsSubstring(book[i].value.name.value, lines[i])
                /\ IsSubstring(join("; ", PhoneValues(book[i].value.phones)), lines[i])

\* C6: add_phone(number) appends number when it is exactly 10 decimal
\* digits, and otherwise fails leaving phones and birthday as they were.
C6_AddPhone ==
    [][ last'.op = "add_phone" =>
          LET name   == last'.args[2]
              number == last'.args[3]
              before == Get(book, name)
              after  == Get(book', name)
          IN  IF TenDecimalDigits(number)
              THEN /\ exc' = ""
                   /\ PhoneValues(after.phones) = Append(PhoneValues(before.phones), number)
                   /\ after.birthday = before.birthday
              ELSE /\ exc' = "ValueError: Invalid phone number"
                   /\ after = before ]_vars

\* C7: change_phone(name, new_phone) replaces the first phone of an existing
\* record that has phones and nothing else of it; it changes nothing when
\* the record is absent or has no phones; every other record is unchanged.
C7_ChangePhone ==
    [][ last'.op = "change_phone" =>
          LET name      == last'.args[2]
              new_phone == last'.args[3]
              before    == Get(book, name)
              after     == Get(book', name)
          IN  /\ Len(book') = Len(book)
              /\ \A i \in 1..Len(book) :
                     /\ book'[i].key = book[i].key
                     /\ book[i].key # name => book'[i] = book[i]
              /\ IF name \in Keys(book) /\ Len(before.phones) > 0
                 THEN /\ after.phones[1].value = new_phone
                      /\ Len(after.phones) = Len(before.phones)
                      /\ \A j \in 2..Len(before.phones) : after.phones[j] = before.phones[j]
                      /\ after.birthday = before.birthday
                      /\ after.name = before.name
                 ELSE book' = book ]_vars

C7_Witness ==
    /\ last.op = "change_phone"
    /\ last.n = 2
    /\ Len(book) = 2
    /\ LET rec == Get(book, last.args[2])
       IN  /\ rec.birthday # None
           /\ PhoneValues(rec.phones) = <<"12345", "5555555555">>
           /\ last.args[3] = "12345"

\* C8: add_record (and the 'add' command) for a name the book already holds
\* leaves one entry under that name, holding the new record, with the
\* number of entries and all other entries unchanged.
C8_AddRecordOverwrites ==
    [][ ( /\ last'.op \in {"add_record", "add"}
          /\ Len(last'.args) >= 2
          /\ last'.op = "add" => (Len(last'.args) = 3 /\ exc' = "")
          /\ last'.args[2] \in Keys(book) )
        => LET name == last'.args[2]
               new  == [name |-> [value |-> name],
                        phones |-> IF last'.op = "add" THEN <<[value |-> last'.args[3]]>>
                                   ELSE <<>>,
                        birthday |-> None]
           IN  /\ Len(book') = Len(book)
               /\ Cardinality({i \in 1..Len(book') : book'[i].key = name}) = 1
               /\ \A i \in 1..Len(book') : book'[i].key = name => book'[i].value = new
               /\ \A i \in 1..Len(book) : book[i].key # name => book'[i] = book[i] ]_vars

C8_Witness ==
    /\ last.op = "add"
    /\ exc = ""
    /\ last.n = 1
    /\ Len(book) = 2
    /\ last.args[2] = book[1].key
    /\ book[2].value.birthday # None

\* C9: remove_phone(number) removes every phone equal to number, keeps the
\* others in order, raises nothing, changes nothing when none is equal, and
\* changes nothing when applied a second time.
C9_RemovePhone ==
    [][ last'.op = "remove_phone" =>
          LET name   == last'.args[2]
              number == last'.args[3]
              before == PhoneValues(Get(book, name).phones)
              after  == PhoneValues(Get(book', name).phones)
              keep   == {i \in 1..Len(before) : before[i] # number}
          IN  /\ exc' = ""
              /\ \A j \in 1..Len(after) : after[j] # number
              /\ Len(after) = Cardinality(keep)
              /\ \A i \in keep : after[Cardinality({k \in keep : k <= i})] = before[i]
              /\ Get(book', name).birthday = Get(book, name).birthday
              /\ keep = 1..Len(before) => book' = book
              /\ (last.op = "remove_phone" /\ last.args = last'.args) => book' = book ]_vars

C9_Witness ==
    /\ last.op = "remove_phone"
    /\ last.args[3] = "5555555555"
    /\ last.n = 3
    /\ PhoneValues(Get(book, last.args[2]).phones) = <<"1111111111">>

\* The date 7 days after today, by day number.
WeekAfter(today) ==
    CHOOSE d \in [year : {today.year, today.year + 1}, month : 1..12, day : 1..31] :
        /\ ValidDate(d.year, d.month, d.day)
        /\ toordinal(d) = toordinal(today) + 7

\* C10: the 'birthdays' command selects a record exactly when it has a
\* birthday whose (day, month) pair lies, day first, between today's and
\* (today + 7 days)'s pairs inclusive; on 28 December a birthday on
\* 2 January is therefore not selected.
C10_UpcomingByDayMonthTuple ==
    last.op = "birthdays" =>
        LET t == last.today
            w == WeekAfter(last.today)
        IN  \A i \in 1..Len(book) :
                LET rec      == book[i].value
                    selected == \E j \in 1..Len(result.picked) : result.picked[j] = rec
                    b        == rec.birthday.value
                IN  /\ selected <=>
                           /\ rec.birthday # None
                           /\ (b.day > t.day \/ (b.day = t.day /\ b.month >= t.month))
                           /\ (b.day < w.day \/ (b.day = w.day /\ b.month <= w.month))
                    /\ selected => IsSubstring(rec.name.value, out)
                    /\ (/\ rec.birthday # None
                        /\ t.day = 28 /\ t.month = 12
                        /\ b.day = 2 /\ b.month = 1) => ~ selected

C10_Witness ==
    /\ last.op = "birthdays"
    /\ last.today = [year |-> 2024, month |-> 12, day |-> 28]
    /\ \E i \in 1..Len(book) :
           /\ book[i].value.birthday # None
           /\ book[i].value.birthday.value.day = 2
           /\ book[i].value.birthday.value.month = 1
    /\ result.picked = <<>>

====
